---- MODULE Spec2Model ----
(***************************************************************************)
(* Model of .github/scripts/post_to_reddit.py: one run of main(), from the *)
(* environment the process starts with to its exit status.                 *)
(*                                                                         *)
(* A Python str is a sequence of one-character strings; a code point       *)
(* outside ASCII is the one-element name of that code point ("U+2705").    *)
(* A value that may be None (os.environ.get without a default, an unset    *)
(* environment variable) is a record [set, val].                           *)
(***************************************************************************)
EXTENDS Integers, Sequences, FiniteSets, TLC

VARIABLES
    env,            \* os.environ: variable name -> [set, val]
    pc,             \* position of main()
    client_id, client_secret, username, password,   \* lines 12-15
    release_tag, release_name, release_body, release_url,   \* lines 17-20
    reddit,         \* the praw.Reddit instance, [set, val]
    post_title, post_body,
    subreddit,      \* the channel reddit.subreddit() selected
    submission,     \* the object submit returned, [set, val]
    exc,            \* the exception in flight, [kind, msg, at]
    out,            \* the lines printed so far
    exit_status,    \* the status the process ends with
    uncaught,       \* an exception left main() through no except clause
    clients,        \* service side: the clients constructed
    submit_calls,   \* service side: the submit calls received
    posts           \* service side: the posts created

vars == <<env, pc, client_id, client_secret, username, password,
          release_tag, release_name, release_body, release_url,
          reddit, post_title, post_body, subreddit, submission, exc,
          out, exit_status, uncaught, clients, submit_calls, posts>>

locals == <<client_id, client_secret, username, password,
            release_tag, release_name, release_body, release_url>>

service == <<clients, submit_calls, posts>>

----------------------------------------------------------------------------
(* Bounds of the inputs. *)

MaxLen == 2
MaxMsgLen == 1

----------------------------------------------------------------------------
(* Values. *)

None == [set |-> FALSE, val |-> <<>>]
Some(s) == [set |-> TRUE, val |-> s]

RECURSIVE StrsOfLen(_, _)
StrsOfLen(alphabet, n) ==
    IF n = 0 THEN {<<>>}
    ELSE {Append(s, c) : s \in StrsOfLen(alphabet, n - 1), c \in alphabet}

Strs(alphabet, n) == UNION {StrsOfLen(alphabet, k) : k \in 0..n}

CredentialVars ==
    {"REDDIT_CLIENT_ID", "REDDIT_CLIENT_SECRET",
     "REDDIT_USERNAME", "REDDIT_PASSWORD"}

ReleaseVars == {"RELEASE_TAG", "RELEASE_NAME", "RELEASE_BODY", "RELEASE_URL"}

CredentialValues == {None, Some(<<>>), Some(<<"k">>)}

NameValues == {None} \cup {Some(s) : s \in Strs({"v", "1"}, MaxLen)}

TextValues == {None, Some(<<>>), Some(<<"u">>)}

Environments ==
    {[v \in CredentialVars \cup ReleaseVars |->
        IF v \in CredentialVars THEN c[v]
        ELSE IF v = "RELEASE_TAG" THEN tag
        ELSE IF v = "RELEASE_NAME" THEN name
        ELSE IF v = "RELEASE_BODY" THEN body
        ELSE url] :
        c \in [CredentialVars -> CredentialValues],
        tag \in NameValues, name \in NameValues,
        body \in TextValues, url \in TextValues}

Messages == Strs({"e"}, MaxMsgLen)

Permalinks == {<<"/", "p">>}

ExceptionKinds == {"PRAWException", "Exception"}

NoExc == [kind |-> "none", msg |-> <<>>, at |-> "none"]

----------------------------------------------------------------------------
(* String literals of the script. *)

DefaultTag ==
    <<"U","n","k","n","o","w","n"," ","V","e","r","s","i","o","n">>

DefaultName ==
    <<"N","e","w"," ","R","e","l","e","a","s","e">>

MissingLine1 ==
    <<"E","r","r","o","r",":"," ","M","i","s","s","i","n","g"," ","r","e",
      "q","u","i","r","e","d"," ","R","e","d","d","i","t"," ","A","P","I",
      " ","c","r","e","d","e","n","t","i","a","l","s">>

MissingLine2 ==
    <<"P","l","e","a","s","e"," ","e","n","s","u","r","e"," ","R","E","D",
      "D","I","T","_","C","L","I","E","N","T","_","I","D",","," ","R","E",
      "D","D","I","T","_","C","L","I","E","N","T","_","S","E","C","R","E",
      "T",","," ","R","E","D","D","I","T","_","U","S","E","R","N","A","M",
      "E",","," ","a","n","d"," ","R","E","D","D","I","T","_","P","A","S",
      "S","W","O","R","D"," ","a","r","e"," ","s","e","t">>

UserAgentPrefix ==
    <<"G","i","t","H","u","b"," ","A","c","t","i","o","n","s"," ","R","e",
      "l","e","a","s","e"," ","B","o","t"," ","f","o","r"," ","T","o","d",
      "a","y"," ","R","S","S"," ","R","e","a","d","e","r"," ","b","y"," ",
      "u","/">>

TitlePrefix ==
    <<"T","o","d","a","y"," ","R","S","S"," ","R","e","a","d","e","r"," ">>

TitleSuffix ==
    <<" ","R","e","l","e","a","s","e","d","!">>

LinkOpen ==
    <<"[","V","i","e","w"," ","R","e","l","e","a","s","e"," ","o","n"," ",
      "G","i","t","H","u","b","]","(">>

LinkClose ==
    <<")","\n","\n">>

Separator ==
    <<"-","-","-","\n">>

Footer ==
    <<"*","T","h","i","s"," ","p","o","s","t"," ","w","a","s"," ","a","u",
      "t","o","m","a","t","i","c","a","l","l","y"," ","g","e","n","e","r",
      "a","t","e","d"," ","f","r","o","m"," ","t","h","e"," ","G","i","t",
      "H","u","b"," ","r","e","l","e","a","s","e","*">>

OtherSubreddit ==
    <<"T","o","d","a","y","R","S","S","_","t","e","s","t">>

SubredditName ==
    <<"T","o","d","a","y","R","S","S">>

SuccessLine ==
    <<"U+2705"," ","S","u","c","c","e","s","s","f","u","l","l","y"," ","p",
      "o","s","t","e","d"," ","t","o"," ","r","/","T","o","d","a","y","R",
      "S","S","!">>

TitleLinePrefix ==
    <<"U+1F4DD"," ","P","o","s","t"," ","t","i","t","l","e",":"," ">>

UrlLinePrefix ==
    <<"U+1F517"," ","P","o","s","t"," ","U","R","L",":"," ","h","t","t","p",
      "s",":","/","/","r","e","d","d","i","t",".","c","o","m">>

ServiceMarker ==
    <<"U+274C"," ","R","e","d","d","i","t"," ","A","P","I"," ","e","r","r",
      "o","r",":"," ">>

UnexpectedMarker ==
    <<"U+274C"," ","U","n","e","x","p","e","c","t","e","d"," ","e","r","r",
      "o","r",":"," ">>

----------------------------------------------------------------------------
(* Pure functions of the script. *)

\* os.environ.get(key): the value, or None when the variable is unset.
EnvGet(e, key) == e[key]

EnvGetEmptyAsUnset(e, key, default) ==
    IF e[key].set /\ e[key].val # <<>> THEN e[key].val ELSE default

\* os.environ.get(key, default): the default only when the variable is unset.
EnvGetDefault(e, key, default) ==
    IF e[key].set THEN e[key].val ELSE default

TruthyNotNone(x) == x.set

\* Python truth value of a str-or-None: None and '' are false.
Truthy(x) == x.set /\ x.val # <<>>

\* all([...]) of line 23.
All(xs) == \A i \in 1..Len(xs) : Truthy(xs[i])

\* user_agent of line 35.
UserAgent(user) == UserAgentPrefix \o user

PostTitleNoEmptyCheck(name, tag) ==
    IF name # tag
    THEN name \o <<" ", "(">> \o tag \o <<")">>
    ELSE TitlePrefix \o tag \o TitleSuffix

PostTitleAlwaysCombined(name, tag) ==
    name \o <<" ", "(">> \o tag \o <<")">>

\* post_title of lines 39-41.
PostTitle(name, tag) ==
    IF name # <<>> /\ name # tag
    THEN name \o <<" ", "(">> \o tag \o <<")">>
    ELSE TitlePrefix \o tag \o TitleSuffix

PostBodyFooterFirst(body, url) ==
    Footer \o <<"\n", "\n">> \o body \o <<"\n", "\n">>
        \o LinkOpen \o url \o LinkClose \o Separator

\* post_body of lines 44-47.
PostBody(body, url) ==
    body \o <<"\n", "\n">> \o LinkOpen \o url \o LinkClose
        \o Separator \o Footer

\* the line printed at 57.
TitleLine(title) == TitleLinePrefix \o title

\* the line printed at 58.
UrlLine(permalink) == UrlLinePrefix \o permalink

\* isinstance: PRAWException derives from Exception.
IsInstance(kind, cls) ==
    \/ kind = cls
    \/ kind = "PRAWException" /\ cls = "Exception"

ExceptClauseGenericFirst(kind) ==
    IF IsInstance(kind, "Exception") THEN "generic"
    ELSE IF IsInstance(kind, "PRAWException") THEN "praw"
    ELSE "none"

ExceptClausePrawOnly(kind) ==
    IF IsInstance(kind, "PRAWException") THEN "praw" ELSE "none"

\* the except clause of lines 60-65 that takes the exception: the first
\* whose class matches, none when no class matches.
ExceptClause(kind) ==
    IF IsInstance(kind, "PRAWException") THEN "praw"
    ELSE IF IsInstance(kind, "Exception") THEN "generic"
    ELSE "none"

\* the line printed at 61 or 64.
ExceptLine(clause, msg) ==
    IF clause = "praw" THEN ServiceMarker \o msg ELSE UnexpectedMarker \o msg

----------------------------------------------------------------------------
(* The run. *)

Init ==
    /\ env \in Environments
    /\ pc = "read_env"
    /\ client_id = None /\ client_secret = None
    /\ username = None /\ password = None
    /\ release_tag = <<>> /\ release_name = <<>>
    /\ release_body = <<>> /\ release_url = <<>>
    /\ reddit = None
    /\ post_title = <<>> /\ post_body = <<>>
    /\ subreddit = <<>>
    /\ submission = None
    /\ exc = NoExc
    /\ out = <<>>
    /\ exit_status = 0
    /\ uncaught = FALSE
    /\ clients = <<>> /\ submit_calls = <<>> /\ posts = <<>>

\* lines 12-20
ReadEnv ==
    /\ pc = "read_env"
    /\ client_id' = EnvGet(env, "REDDIT_CLIENT_ID")
    /\ client_secret' = EnvGet(env, "REDDIT_CLIENT_SECRET")
    /\ username' = EnvGet(env, "REDDIT_USERNAME")
    /\ password' = EnvGet(env, "REDDIT_PASSWORD")
    /\ release_tag' = EnvGetDefault(env, "RELEASE_TAG", DefaultTag)
    /\ release_name' = EnvGetDefault(env, "RELEASE_NAME", DefaultName)
    /\ release_body' = EnvGetDefault(env, "RELEASE_BODY", <<>>)
    /\ release_url' = EnvGetDefault(env, "RELEASE_URL", <<>>)
    /\ pc' = "validate"
    /\ UNCHANGED <<env, reddit, post_title, post_body, subreddit, submission,
                   exc, out, exit_status, uncaught, service>>

\* lines 23-26, a credential missing
ValidateMissing ==
    /\ pc = "validate"
    /\ ~All(<<client_id, client_secret, username, password>>)
    /\ out' = out \o <<MissingLine1, MissingLine2>>
    /\ exit_status' = 1
    /\ pc' = "done"
    /\ UNCHANGED <<env, locals, reddit, post_title, post_body, subreddit,
                   submission, exc, uncaught, service>>

\* line 23, all four present: the try block is entered
ValidateOk ==
    /\ pc = "validate"
    /\ All(<<client_id, client_secret, username, password>>)
    /\ pc' = "construct"
    /\ UNCHANGED <<env, locals, reddit, post_title, post_body, subreddit,
                   submission, exc, out, exit_status, uncaught, service>>

\* a call of the try block raises: control goes to the except clauses
Raise(at) ==
    /\ \E k \in ExceptionKinds, m \in Messages :
          exc' = [kind |-> k, msg |-> m, at |-> at]
    /\ pc' = "except"

\* lines 30-36
ConstructOk ==
    /\ pc = "construct"
    /\ LET c == [client_id |-> client_id.val,
                 client_secret |-> client_secret.val,
                 username |-> username.val,
                 password |-> password.val,
                 user_agent |-> UserAgent(username.val)]
       IN /\ reddit' = Some(c)
          /\ clients' = Append(clients, c)
    /\ pc' = "format"
    /\ UNCHANGED <<env, locals, post_title, post_body, subreddit, submission,
                   exc, out, exit_status, uncaught, submit_calls, posts>>

ConstructRaise ==
    /\ pc = "construct"
    /\ Raise("construct")
    /\ UNCHANGED <<env, locals, reddit, post_title, post_body, subreddit,
                   submission, out, exit_status, uncaught, service>>

\* lines 39-47
Format ==
    /\ pc = "format"
    /\ post_title' = PostTitle(release_name, release_tag)
    /\ post_body' = PostBody(release_body, release_url)
    /\ pc' = "subreddit"
    /\ UNCHANGED <<env, locals, reddit, subreddit, submission, exc, out,
                   exit_status, uncaught, service>>

\* line 50
SubredditOk ==
    /\ pc = "subreddit"
    /\ subreddit' = SubredditName
    /\ pc' = "submit"
    /\ UNCHANGED <<env, locals, reddit, post_title, post_body, submission,
                   exc, out, exit_status, uncaught, service>>

SubredditRaise ==
    /\ pc = "subreddit"
    /\ Raise("subreddit")
    /\ UNCHANGED <<env, locals, reddit, post_title, post_body, subreddit,
                   submission, out, exit_status, uncaught, service>>

SubmitCall ==
    [client |-> reddit.val, channel |-> subreddit,
     title |-> post_title, selftext |-> post_body]

\* lines 51-54, the service creates the post and submit returns it
SubmitOk ==
    /\ pc = "submit"
    /\ submit_calls' = Append(submit_calls, SubmitCall)
    /\ \E p \in Permalinks :
          /\ posts' = Append(posts, [call |-> SubmitCall, permalink |-> p])
          /\ submission' = Some(p)
    /\ pc' = "confirm"
    /\ UNCHANGED <<env, locals, reddit, post_title, post_body, subreddit,
                   exc, out, exit_status, uncaught, clients>>

\* lines 51-54, the service rejects the call or the call fails
SubmitRaise ==
    /\ pc = "submit"
    /\ submit_calls' = Append(submit_calls, SubmitCall)
    /\ Raise("submit")
    /\ UNCHANGED <<env, locals, reddit, post_title, post_body, subreddit,
                   submission, out, exit_status, uncaught, clients, posts>>

\* lines 56-57
PrintSuccess ==
    /\ pc = "confirm"
    /\ out' = out \o <<SuccessLine, TitleLine(post_title)>>
    /\ pc' = "permalink"
    /\ UNCHANGED <<env, locals, reddit, post_title, post_body, subreddit,
                   submission, exc, exit_status, uncaught, service>>

\* line 58, then main() returns and the process ends with status 0
PrintUrl ==
    /\ pc = "permalink"
    /\ out' = Append(out, UrlLine(submission.val))
    /\ pc' = "done"
    /\ UNCHANGED <<env, locals, reddit, post_title, post_body, subreddit,
                   submission, exc, exit_status, uncaught, service>>

\* line 58, reading submission.permalink fails
PermalinkRaise ==
    /\ pc = "permalink"
    /\ Raise("permalink")
    /\ UNCHANGED <<env, locals, reddit, post_title, post_body, subreddit,
                   submission, out, exit_status, uncaught, service>>

\* lines 60-65; an exception no clause takes leaves main() and the
\* interpreter ends the process with status 1
Except ==
    /\ pc = "except"
    /\ LET clause == ExceptClause(exc.kind)
       IN IF clause = "none"
          THEN /\ uncaught' = TRUE
               /\ exit_status' = 1
               /\ out' = out
          ELSE /\ out' = Append(out, ExceptLine(clause, exc.msg))
               /\ exit_status' = 1
               /\ uncaught' = uncaught
    /\ pc' = "done"
    /\ UNCHANGED <<env, locals, reddit, post_title, post_body, subreddit,
                   submission, exc, service>>

Next ==
    \/ ReadEnv
    \/ ValidateMissing
    \/ ValidateOk
    \/ ConstructOk
    \/ ConstructRaise
    \/ Format
    \/ SubredditOk
    \/ SubredditRaise
    \/ SubmitOk
    \/ SubmitRaise
    \/ PrintSuccess
    \/ PrintUrl
    \/ PermalinkRaise
    \/ Except

Spec == Init /\ [][Next]_vars

----------------------------------------------------------------------------
(* Properties. *)

StartsWith(s, prefix) ==
    /\ Len(prefix) <= Len(s)
    /\ SubSeq(s, 1, Len(prefix)) = prefix

EndsWith(s, suffix) ==
    /\ Len(suffix) <= Len(s)
    /\ SubSeq(s, Len(s) - Len(suffix) + 1, Len(s)) = suffix

Contains(s, part) ==
    \E i \in 0..(Len(s) - Len(part)) : SubSeq(s, i + 1, i + Len(part)) = part

Printed(line) == \E i \in 1..Len(out) : out[i] = line

Combined(name, tag) == name \o <<" ", "(">> \o tag \o <<")">>

Fallback(tag) == TitlePrefix \o tag \o TitleSuffix

FixedChannel ==
    <<"T","o","d","a","y","R","S","S">>

DefaultTitle ==
    <<"N","e","w"," ","R","e","l","e","a","s","e"," ","(","U","n","k","n",
      "o","w","n"," ","V","e","r","s","i","o","n",")">>

MissingCredential ==
    \E v \in CredentialVars : ~env[v].set \/ env[v].val = <<>>

\* C1: with a credential unset or empty the run ends with status 1 right
\* after the check, and no client is constructed and submit is never
\* called, whatever the release fields are.
C1_MissingCredentials ==
    MissingCredential =>
        /\ pc \in {"read_env", "validate", "done"}
        /\ clients = <<>> /\ submit_calls = <<>> /\ posts = <<>>
        /\ ~reddit.set
        /\ pc = "done" => exit_status = 1

C1_Witness ==
    /\ pc = "done" /\ exit_status = 1
    /\ env["REDDIT_PASSWORD"] = Some(<<>>)
    /\ \A v \in CredentialVars \ {"REDDIT_PASSWORD"} : Truthy(env[v])
    /\ env["RELEASE_TAG"].set /\ env["RELEASE_TAG"].val # <<>>

\* C2: the title passed to submit is "{release_name} ({release_tag})" when
\* release_name is non-empty and differs from release_tag, and
\* "Today RSS Reader {release_tag} Released!" in every other case.
C2_Title ==
    \A i \in 1..Len(submit_calls) :
        /\ (release_name # <<>> /\ release_name # release_tag)
              => submit_calls[i].title = Combined(release_name, release_tag)
        /\ (release_name = <<>> \/ release_name = release_tag)
              => submit_calls[i].title = Fallback(release_tag)

C2_Witness ==
    /\ Len(submit_calls) = 1
    /\ release_name = <<>> /\ release_tag # <<>>
    /\ submit_calls[1].title = Fallback(release_tag)

\* C3 as stated: equal name and tag give the fallback title, every other
\* name, the empty one included, gives the combined title.
C3_Original ==
    \A i \in 1..Len(submit_calls) :
        IF release_name = release_tag
        THEN submit_calls[i].title = Fallback(release_tag)
        ELSE submit_calls[i].title = Combined(release_name, release_tag)

\* C3 amended: equal name and tag give the fallback title; a non-empty
\* name that differs from the tag gives the combined title; RELEASE_NAME
\* set to the empty string gives the fallback title.
C3_Amended ==
    \A i \in 1..Len(submit_calls) :
        IF release_name = release_tag \/ env["RELEASE_NAME"] = Some(<<>>)
        THEN submit_calls[i].title = Fallback(release_tag)
        ELSE submit_calls[i].title = Combined(release_name, release_tag)

C3_Witness ==
    /\ Len(submit_calls) = 1
    /\ env["RELEASE_NAME"] = Some(<<>>)
    /\ release_tag # release_name
    /\ submit_calls[1].title = Fallback(release_tag)

\* C4: the body passed to submit is release_body, then the link line with
\* release_url, then the separator, then the footer: it ends with the
\* footer and contains release_url when release_url is non-empty.
C4_Body ==
    \A i \in 1..Len(submit_calls) :
        LET body == submit_calls[i].selftext
            tail == Separator \o Footer
            mid == SubSeq(body, Len(release_body) + 1, Len(body) - Len(tail))
        IN /\ StartsWith(body, release_body)
           /\ EndsWith(body, tail)
           /\ EndsWith(body, Footer)
           /\ Len(release_body) + Len(tail) <= Len(body)
           /\ Contains(mid, LinkOpen \o release_url \o <<")">>)
           /\ release_url # <<>> => Contains(body, release_url)

C4_Witness ==
    /\ Len(submit_calls) = 1
    /\ release_url # <<>> /\ release_body # <<>>
    /\ Contains(submit_calls[1].selftext, release_url)

\* C5: a PRAWException raised by the client construction or by submit
\* ends the run with status 1 and the service-error line as the only line
\* printed: no success confirmation and no second submit.
C5_ServiceError ==
    (pc = "done" /\ exc.kind = "PRAWException"
        /\ exc.at \in {"construct", "submit"}) =>
        /\ out = <<ServiceMarker \o exc.msg>>
        /\ ~Printed(SuccessLine)
        /\ exit_status = 1
        /\ Len(submit_calls) = (IF exc.at = "submit" THEN 1 ELSE 0)
        /\ Len(clients) = (IF exc.at = "submit" THEN 1 ELSE 0)
        /\ posts = <<>>

C5_Witness ==
    /\ pc = "done" /\ exc.kind = "PRAWException" /\ exc.at = "submit"
    /\ exc.msg # <<>>
    /\ exit_status = 1

\* C6: any other exception raised in the try block ends the run with
\* status 1 and the unexpected-error line as the last line printed, and
\* no exception of the block leaves main() uncaught.
C6_UnexpectedError ==
    /\ ~uncaught
    /\ (pc = "done" /\ exc.kind \notin {"none", "PRAWException"}) =>
          /\ out # <<>>
          /\ out[Len(out)] = UnexpectedMarker \o exc.msg
          /\ exit_status = 1

C6_Witness ==
    /\ pc = "done" /\ exc.kind = "Exception" /\ exc.at = "construct"
    /\ out = <<UnexpectedMarker \o exc.msg>>
    /\ exit_status = 1

\* C7: once submit has returned a post the run prints the confirmation
\* with the derived title and the post's address and ends with status 0,
\* and the confirmation is printed only after submit has returned.
C7_Success ==
    /\ (pc = "done" /\ posts # <<>>) =>
          /\ exit_status = 0
          /\ Len(out) = 3
          /\ out[1] = SuccessLine
          /\ Contains(out[2], post_title)
          /\ Contains(out[3], posts[1].permalink)
    /\ Printed(SuccessLine) => (posts # <<>> /\ submission.set)

\* C8: submit is called at most once, on the channel 'TodayRSS' with the
\* derived title and body, and a failure is final: after an exception or
\* the exit no client is constructed and no submit is called.
C8_SubmitInv ==
    /\ Len(submit_calls) <= 1
    /\ Len(clients) <= 1
    /\ \A i \in 1..Len(submit_calls) :
          /\ submit_calls[i].channel = FixedChannel
          /\ submit_calls[i].title = post_title
          /\ submit_calls[i].selftext = post_body
          /\ post_title = PostTitle(release_name, release_tag)
          /\ post_body = PostBody(release_body, release_url)

C8_Terminal ==
    /\ pc # "done"
    /\ exc.kind # "none" =>
          /\ service' = service
          /\ pc' = "done"
          /\ exit_status' = 1

C8_SingleSubmit == []C8_SubmitInv /\ [][C8_Terminal]_vars

C8_Witness ==
    /\ pc = "done" /\ exit_status = 1
    /\ Len(submit_calls) = 1
    /\ exc.at = "submit"

\* C9: a release variable reads as its default only when it is unset
\* ('Unknown Version', 'New Release', '' and ''), a variable set to the
\* empty string stays empty, and with RELEASE_TAG and RELEASE_NAME unset
\* the submitted title is "New Release (Unknown Version)".
C9_Defaults ==
    /\ pc # "read_env" =>
          /\ release_tag = (IF env["RELEASE_TAG"].set
                            THEN env["RELEASE_TAG"].val ELSE DefaultTag)
          /\ release_name = (IF env["RELEASE_NAME"].set
                             THEN env["RELEASE_NAME"].val ELSE DefaultName)
          /\ release_body = (IF env["RELEASE_BODY"].set
                             THEN env["RELEASE_BODY"].val ELSE <<>>)
          /\ release_url = (IF env["RELEASE_URL"].set
                            THEN env["RELEASE_URL"].val ELSE <<>>)
    /\ \A i \in 1..Len(submit_calls) :
          (~env["RELEASE_TAG"].set /\ ~env["RELEASE_NAME"].set)
              => submit_calls[i].title = DefaultTitle

C9_Witness ==
    /\ Len(submit_calls) = 1
    /\ ~env["RELEASE_TAG"].set /\ ~env["RELEASE_NAME"].set
    /\ env["RELEASE_BODY"] = Some(<<>>) /\ ~env["RELEASE_URL"].set
    /\ submit_calls[1].title = DefaultTitle

\* C10: the run ends with status 0 or 1, and the status is 0 exactly when
\* a post was created: a run that ends with status 1 has created no post.
C10_ExitStatus ==
    pc = "done" =>
        /\ exit_status \in {0, 1}
        /\ exit_status = 0 <=> posts # <<>>

====
